---------------------------- MODULE Spec2Model ----------------------------
(***************************************************************************)
(* A model of character-authenticator: BaseAuthenticator (src/src/base.js) *)
(* and POSTAuthenticator (src/lib/post.js).                                *)
(*                                                                         *)
(* Every request handled by receiver is a process whose position `pc` is   *)
(* the pipeline step it is suspended before.  The identity store           *)
(* (Core$Identity with its Authentication$Account rows), the event bus     *)
(* (character.emit), the session (req.character.set) and the response      *)
(* (res.redirect) are the host's; the model keeps what this code hands to  *)
(* them.  Strings are TLA+ strings; an absent property or a null is <<>>,   *)
(* a present one <<value>>.  The events are kept per request, in the order *)
(* emitted, without their timestamps (new Date()).                         *)
(***************************************************************************)
EXTENDS Integers, Sequences, FiniteSets, TLC

(***************************************************************************)
(* Bounds of the model.                                                    *)
(***************************************************************************)
\* The requests that may be in progress at once, the requests received in
\* all, and the ids authenticate may give its accounts.
MaxConcurrent == 2
MaxRequests == 3
MaxAccountId == 2

Reqs == 1..MaxConcurrent
AccountIds == 1..MaxAccountId

(***************************************************************************)
(* Program constants: http-codes imported at base.js:7.                    *)
(***************************************************************************)
INTERNAL_SERVER_ERROR == 500
NOT_FOUND == 404
SEE_OTHER == 303

\* The names the host gives its authenticators (constructor argument `name`).
Names == {"a", "ab", "x"}

\* The authenticators whose class overrides authenticate; x is left with
\* BaseAuthenticator's.
Subclassed == {"a", "ab"}

\* What authenticate of a subclass may return: { id, deferred? }.
Accounts == [id : AccountIds, deferred : BOOLEAN]

\* httpStatusCode values a failing step may carry; 799 has no standard text.
ThrownCodes == {401, 799}

\* An Error object: httpStatusCode is <<>> when the property is not set.
ErrorWith(code) == [httpStatusCode |-> <<code>>]
ErrorPlain == [httpStatusCode |-> <<>>]

VARIABLES
  registry,    \* character.database.models: the registered model names, in key order
  constructed, \* the authenticators whose constructor has run
  config,      \* this.config of each authenticator
  subclassed,  \* whether the authenticator's class overrides authenticate
  models,      \* this.models of each authenticator: short name -> model
  router,      \* this.router of each authenticator: the routes defined
  identities,  \* Core$Identity rows (their ids)
  links,       \* Authentication$Account rows
  received,    \* the number of requests received so far
  pc,          \* per request: the step it is suspended before
  auth,        \* per request: the authenticator (name) that received it
  account,     \* per request: what authenticate returned, <<>> before
  found,       \* per request: what findIdentity resolved to (<<>> is null)
  created,     \* per request: the identity onboard's create resolved to
  user,        \* per request: context.user, <<>> before identify builds it
  err,         \* per request: the error thrown, <<>> when none
  session,     \* per request: what req.character.set was given, <<>> when never called
  responses,   \* per request: the res.redirect calls, in order
  events,      \* per request: what character.emit was called with during it, in order
  calls        \* per request: the methods and host services called, in order

storeVars == <<identities, links>>
classVars == <<registry, constructed, config, subclassed, models, router>>
reqVars == <<pc, auth, account, found, created, user, err, session, responses,
            events, calls>>
vars == <<registry, constructed, config, subclassed, models, router, identities,
          links, received, pc, auth, account, found, created, user, err, session,
          responses, events, calls>>


(***************************************************************************)
(* Strings: the library calls the code makes on them.                      *)
(***************************************************************************)
\* String.prototype.toUpperCase on one character.
ToUpperCase(c) ==
  CASE c = "a" -> "A"
    [] c = "b" -> "B"
    [] c = "x" -> "X"
    [] OTHER -> c

\* A faulty capitalize: the name is used as it is.
capitalizeNot(s) == s

\* capitalize(string): the first character in upper case, then the rest.
capitalize(s) ==
  IF Len(s) = 0 THEN s ELSE ToUpperCase(SubSeq(s, 1, 1)) \o SubSeq(s, 2, Len(s))

\* String.prototype.startsWith
startsWith(s, prefix) ==
  Len(s) >= Len(prefix) /\ SubSeq(s, 1, Len(prefix)) = prefix

\* String.prototype.slice(start), start counted from 0
slice(s, start) == SubSeq(s, start + 1, Len(s))

\* querystring.escape: a space is percent-encoded, letters are kept.
RECURSIVE escape(_)
escape(s) ==
  IF Len(s) = 0 THEN ""
  ELSE (IF SubSeq(s, 1, 1) = " " THEN "%20" ELSE SubSeq(s, 1, 1))
       \o escape(SubSeq(s, 2, Len(s)))

\* http.STATUS_CODES[code]: <<text>>, or <<>> (undefined) for a code with no entry.
httpCodeMessage(code) ==
  CASE code = 303 -> <<"See Other">>
    [] code = 401 -> <<"Unauthorized">>
    [] code = 404 -> <<"Not Found">>
    [] code = 500 -> <<"Internal Server Error">>
    [] OTHER -> <<>>

\* querystring.stringify({ reason }): an undefined value is written empty.
stringifyReason(reason) ==
  "reason=" \o (IF reason = <<>> THEN "" ELSE escape(reason[1]))

(***************************************************************************)
(* attachModels (base.js:46-54).                                           *)
(***************************************************************************)
modelPrefix(name) == "Authentication$" \o capitalize(name) \o "$"

\* The forEach callback over the registry's keys, in key order; the model
\* bound is the registered one, written here as its registered name.
RECURSIVE attachLoop(_, _, _)
attachLoop(names, prefix, acc) ==
  IF names = <<>> THEN acc
  ELSE LET name == Head(names)
           next == IF startsWith(name, prefix)
                     THEN (slice(name, Len(prefix)) :> name) @@ acc
                     ELSE acc
       IN attachLoop(Tail(names), prefix, next)

attachModels(name, reg) == attachLoop(reg, modelPrefix(name), <<>>)

\* POSTAuthenticator.define (post.js:13-17): one POST route at the root.
define(name) == {[method |-> "POST", path |-> "/", handler |-> "receiver"]}

(***************************************************************************)
(* The identity store, as findIdentity and onboard use it.                 *)
(***************************************************************************)
\* A faulty findOneMatches: the where clause leaves out authenticatorName.
findOneMatchesAnyName(accountId, name) ==
  {i \in identities :
     \E l \in links : /\ l.identityId = i
                      /\ l.authenticatorAccountId = accountId}

\* The identities Core$Identity.findOne may return for the include's where
\* clause; with several matches the one returned is the database's choice.
findOneMatches(accountId, name) ==
  {i \in identities :
     \E l \in links : /\ l.identityId = i
                      /\ l.authenticatorAccountId = accountId
                      /\ l.authenticatorName = name}

\* The id the database gives the next Core$Identity row.
nextIdentityId == Cardinality(identities) + 1

\* The row Core$Identity.create adds through include: [Authentication$Account].
accountRow(identityId, accountId, name) ==
  [identityId |-> identityId, authenticatorAccountId |-> accountId,
   authenticatorName |-> name]

(***************************************************************************)
(* Construction (base.js:24-41).                                           *)
(***************************************************************************)
\* The registry every host has: the two models findIdentity and onboard use.
CoreModels == <<"Core$Identity", "Authentication$Account">>

\* Models a host may register besides: of authenticator a, of authenticator
\* ab, named by the bare prefix, with the name not capitalized, with the
\* prefix not at the start, and of another plugin.
ExtraModels ==
  <<"Authentication$A$x", "Authentication$Ab$x", "Authentication$A$",
    "Authentication$a$x", "x$Authentication$A$x", "Authentication$Ab$A$x">>

\* The elements of seq whose index is in keep, in seq's order.
RECURSIVE pick(_, _, _)
pick(seq, keep, i) ==
  IF i > Len(seq) THEN <<>>
  ELSE (IF i \in keep THEN <<seq[i]>> ELSE <<>>) \o pick(seq, keep, i + 1)

Registries == {CoreModels \o pick(ExtraModels, keep, 1) : keep \in SUBSET (1..Len(ExtraModels))}

\* The config object the host passes to the constructor.
hostConfig(name, onboardKnownAccounts) ==
  [successRedirect |-> "/" \o name \o "/ok",
   deferredRedirect |-> "/" \o name \o "/sent",
   failureRedirect |-> "/" \o name \o "/failed",
   onboardKnownAccounts |-> onboardKnownAccounts]

\* lodash clone: a copy with the same own properties.
clone(c) == [k \in DOMAIN c |-> c[k]]

\* The onboardKnownAccounts of each authenticator; x never reads its own.
Configs == {c \in [Names -> BOOLEAN] : \A n \in Names \ Subclassed : ~c[n]}

\* new POSTAuthenticator(name, config, deps, character)
Construct(name) ==
  /\ name \notin constructed
  /\ constructed' = constructed \cup {name}
  /\ \E flag \in BOOLEAN :
       config' = [config EXCEPT ![name] = clone(hostConfig(name, flag))]
  /\ models' = [models EXCEPT ![name] = attachModels(name, registry)]
  /\ router' = [router EXCEPT ![name] = define(name)]
  /\ UNCHANGED <<registry, subclassed, identities, links, received>>
  /\ UNCHANGED reqVars

(***************************************************************************)
(* Initial states.                                                         *)
(***************************************************************************)
IdleRequests ==
  /\ pc = [r \in Reqs |-> "idle"]
  /\ auth = [r \in Reqs |-> ""]
  /\ account = [r \in Reqs |-> <<>>]
  /\ found = [r \in Reqs |-> <<>>]
  /\ created = [r \in Reqs |-> <<>>]
  /\ user = [r \in Reqs |-> <<>>]
  /\ err = [r \in Reqs |-> <<>>]
  /\ session = [r \in Reqs |-> <<>>]
  /\ responses = [r \in Reqs |-> <<>>]
  /\ events = [r \in Reqs |-> <<>>]
  /\ calls = [r \in Reqs |-> <<>>]

\* The stores a host may start with: empty, or identity 1 linked to account
\* 1 of authenticator a.
InitialStores ==
  {[identities |-> {}, links |-> {}],
   [identities |-> {1}, links |-> {accountRow(1, 1, "a")}]}

\* Both authenticators constructed, no request received yet.
Init ==
  /\ registry = CoreModels \o ExtraModels
  /\ constructed = Names
  /\ \E c \in Configs : config = [n \in Names |-> clone(hostConfig(n, c[n]))]
  /\ subclassed = [n \in Names |-> n \in Subclassed]
  /\ models = [n \in Names |-> attachModels(n, registry)]
  /\ router = [n \in Names |-> define(n)]
  /\ \E s \in InitialStores : identities = s.identities /\ links = s.links
  /\ received = 0
  /\ IdleRequests

\* The host before it constructs its authenticators, with any registry.
InitAttach ==
  /\ registry \in Registries
  /\ constructed = {}
  /\ config = [n \in Names |-> <<>>]
  /\ subclassed = [n \in Names |-> n \in Subclassed]
  /\ models = [n \in Names |-> <<>>]
  /\ router = [n \in Names |-> {}]
  /\ identities = {} /\ links = {}
  /\ received = 0
  /\ IdleRequests

(***************************************************************************)
(* The request pipeline: receiver (base.js:225-256) and what it calls.     *)
(* asyncpipe awaits each step, so every step is an action of its own, and  *)
(* so is every resolution of a promise of the data layer.                  *)
(***************************************************************************)
\* character.emit(type, payload)
emit(r, type, payload) ==
  events' = [events EXCEPT ![r] = Append(@, [type |-> type, payload |-> payload])]

called(r, what) == calls' = [calls EXCEPT ![r] = Append(@, what)]

\* A step of request r throws e: the pipeline is left for receiver's catch.
throw(r, e) ==
  /\ err' = [err EXCEPT ![r] = <<e>>]
  /\ pc' = [pc EXCEPT ![r] = "catch"]

\* The POST route of authenticator name calls receiver (post.js:14-16).
Receive(r, name) ==
  /\ pc[r] = "idle"
  /\ received < MaxRequests
  /\ received' = received + 1
  /\ name \in constructed
  /\ \E route \in router[name] : route.method = "POST" /\ route.handler = "receiver"
  /\ pc' = [pc EXCEPT ![r] = "authenticate"]
  /\ auth' = [auth EXCEPT ![r] = name]
  /\ called(r, "receiver")
  /\ UNCHANGED <<account, found, created, user, err, session, responses>>
  /\ UNCHANGED <<events, identities, links>>
  /\ UNCHANGED classVars

\* authenticate as BaseAuthenticator has it (base.js:65-76).
AuthenticateBase(r) ==
  /\ pc[r] = "authenticate"
  /\ ~subclassed[auth[r]]
  /\ called(r, "authenticate")
  /\ throw(r, [httpStatusCode |-> <<INTERNAL_SERVER_ERROR>>,
               message |-> "Authenticator#authenticate must be subclassed. My name: "
                           \o auth[r]])
  /\ UNCHANGED <<auth, account, found, created, user, session, responses>>
  /\ UNCHANGED <<events, identities, links, received>>
  /\ UNCHANGED classVars

\* authenticate of a subclass returns an account.
AuthenticateReturn(r, acct) ==
  /\ pc[r] = "authenticate"
  /\ subclassed[auth[r]]
  /\ called(r, "authenticate")
  /\ account' = [account EXCEPT ![r] = <<acct>>]
  /\ pc' = [pc EXCEPT ![r] = "identify"]
  /\ UNCHANGED <<auth, found, created, user, err, session, responses>>
  /\ UNCHANGED <<events, identities, links, received>>
  /\ UNCHANGED classVars

\* authenticate of a subclass throws, with or without an httpStatusCode.
AuthenticateThrow(r, e) ==
  /\ pc[r] = "authenticate"
  /\ subclassed[auth[r]]
  /\ called(r, "authenticate")
  /\ throw(r, [httpStatusCode |-> e.httpStatusCode, message |-> "authenticate failed"])
  /\ UNCHANGED <<auth, account, found, created, user, session, responses>>
  /\ UNCHANGED <<events, identities, links, received>>
  /\ UNCHANGED classVars

\* const user = { authenticator: { account, name: this.name } } (base.js:147-152);
\* id is <<>> and deferred is FALSE while the property is not set.
newUser(acct, name) ==
  [authenticator |-> [account |-> acct, name |-> name], id |-> <<>>, deferred |-> FALSE]

\* identify of a deferred account (base.js:154-155, 177-181).
IdentifyDeferred(r) ==
  /\ pc[r] = "identify"
  /\ account[r][1].deferred
  /\ called(r, "identify")
  /\ LET u == [newUser(account[r][1], auth[r]) EXCEPT !.deferred = TRUE]
     IN /\ user' = [user EXCEPT ![r] = <<u>>]
        /\ emit(r, "authentication:authenticate", [user |-> u])
  /\ pc' = [pc EXCEPT ![r] = "session"]
  /\ UNCHANGED <<auth, account, found, created, err, session, responses>>
  /\ UNCHANGED <<identities, links, received>>
  /\ UNCHANGED classVars

\* A faulty IdentifyLookup: the deferred flag is not looked at.
IdentifyLookupUnguarded(r) ==
  /\ pc[r] = "identify"
  /\ calls' = [calls EXCEPT ![r] = @ \o <<"identify", "findIdentity">>]
  /\ user' = [user EXCEPT ![r] = <<newUser(account[r][1], auth[r])>>]
  /\ pc' = [pc EXCEPT ![r] = "findOne"]
  /\ UNCHANGED <<auth, account, found, created, err, session, responses>>
  /\ UNCHANGED <<events, identities, links, received>>
  /\ UNCHANGED classVars

\* identify of any other account calls findIdentity and awaits it (base.js:158).
IdentifyLookup(r) ==
  /\ pc[r] = "identify"
  /\ ~account[r][1].deferred
  /\ calls' = [calls EXCEPT ![r] = @ \o <<"identify", "findIdentity">>]
  /\ user' = [user EXCEPT ![r] = <<newUser(account[r][1], auth[r])>>]
  /\ pc' = [pc EXCEPT ![r] = "findOne"]
  /\ UNCHANGED <<auth, account, found, created, err, session, responses>>
  /\ UNCHANGED <<events, identities, links, received>>
  /\ UNCHANGED classVars

\* What Core$Identity.findOne resolves to for findIdentity's query
\* (base.js:119-132): <<>> for null, else a matching identity, { id }.
findIdentity(acct, name) ==
  IF findOneMatches(acct.id, name) = {} THEN {<<>>}
  ELSE {<<[id |-> i]>> : i \in findOneMatches(acct.id, name)}

\* The data layer answers findIdentity's query.
FindOneResolve(r) ==
  /\ pc[r] = "findOne"
  /\ \E identity \in findIdentity(account[r][1], auth[r]) :
       found' = [found EXCEPT ![r] = identity]
  /\ pc' = [pc EXCEPT ![r] = "lookedUp"]
  /\ UNCHANGED <<auth, account, created, user, err, session, responses, calls>>
  /\ UNCHANGED <<events, identities, links, received>>
  /\ UNCHANGED classVars

\* The data layer rejects findIdentity's query.
FindOneReject(r) ==
  /\ pc[r] = "findOne"
  /\ throw(r, [httpStatusCode |-> <<>>, message |-> "findOne rejected"])
  /\ UNCHANGED <<auth, account, found, created, user, session, responses, calls>>
  /\ UNCHANGED <<events, identities, links, received>>
  /\ UNCHANGED classVars

\* A faulty IdentifyFound: the user is given the account's id.
IdentifyFoundAccountId(r) ==
  /\ pc[r] = "lookedUp"
  /\ found[r] # <<>>
  /\ LET u == [user[r][1] EXCEPT !.id = <<account[r][1].id>>]
     IN /\ user' = [user EXCEPT ![r] = <<u>>]
        /\ emit(r, "authentication:authenticate", [user |-> u])
  /\ pc' = [pc EXCEPT ![r] = "session"]
  /\ UNCHANGED <<auth, account, found, created, err, session, responses, calls>>
  /\ UNCHANGED <<identities, links, received>>
  /\ UNCHANGED classVars

\* identify with an identity found (base.js:163-165, 177-181).
IdentifyFound(r) ==
  /\ pc[r] = "lookedUp"
  /\ found[r] # <<>>
  /\ LET u == [user[r][1] EXCEPT !.id = <<found[r][1].id>>]
     IN /\ user' = [user EXCEPT ![r] = <<u>>]
        /\ emit(r, "authentication:authenticate", [user |-> u])
  /\ pc' = [pc EXCEPT ![r] = "session"]
  /\ UNCHANGED <<auth, account, found, created, err, session, responses, calls>>
  /\ UNCHANGED <<identities, links, received>>
  /\ UNCHANGED classVars

\* A faulty IdentifyOnboard: onboardKnownAccounts is tested before the
\* identity found.
IdentifyOnboardUnguarded(r) ==
  /\ pc[r] = "lookedUp"
  /\ config[auth[r]].onboardKnownAccounts
  /\ called(r, "onboard")
  /\ pc' = [pc EXCEPT ![r] = "create"]
  /\ UNCHANGED <<auth, account, found, created, user, err, session, responses>>
  /\ UNCHANGED <<events, identities, links, received>>
  /\ UNCHANGED classVars

\* identify with none found and onboardKnownAccounts set calls onboard, which
\* calls Core$Identity.create and awaits it (base.js:166-168, 197-209).
IdentifyOnboard(r) ==
  /\ pc[r] = "lookedUp"
  /\ found[r] = <<>>
  /\ config[auth[r]].onboardKnownAccounts
  /\ called(r, "onboard")
  /\ pc' = [pc EXCEPT ![r] = "create"]
  /\ UNCHANGED <<auth, account, found, created, user, err, session, responses>>
  /\ UNCHANGED <<events, identities, links, received>>
  /\ UNCHANGED classVars

\* A faulty IdentifyNotFound: the error is thrown without its httpStatusCode.
IdentifyNotFoundNoCode(r) ==
  /\ pc[r] = "lookedUp"
  /\ found[r] = <<>>
  /\ ~config[auth[r]].onboardKnownAccounts
  /\ throw(r, [httpStatusCode |-> <<>>,
               message |-> "Could not find identity for account"])
  /\ UNCHANGED <<auth, account, found, created, user, session, responses, calls>>
  /\ UNCHANGED <<events, identities, links, received>>
  /\ UNCHANGED classVars

\* identify with none found and onboardKnownAccounts not set (base.js:170-175).
IdentifyNotFound(r) ==
  /\ pc[r] = "lookedUp"
  /\ found[r] = <<>>
  /\ ~config[auth[r]].onboardKnownAccounts
  /\ throw(r, [httpStatusCode |-> <<NOT_FOUND>>,
               message |-> "Could not find identity for account"])
  /\ UNCHANGED <<auth, account, found, created, user, session, responses, calls>>
  /\ UNCHANGED <<events, identities, links, received>>
  /\ UNCHANGED classVars

\* A faulty CreateResolve: the create is given no include, so that no
\* account row is written.
CreateResolveNoRow(r) ==
  /\ pc[r] = "create"
  /\ LET id == nextIdentityId
     IN /\ identities' = identities \cup {id}
        /\ links' = links
        /\ created' = [created EXCEPT ![r] = <<[id |-> id]>>]
  /\ pc' = [pc EXCEPT ![r] = "created"]
  /\ UNCHANGED <<auth, account, found, user, err, session, responses, calls>>
  /\ UNCHANGED <<events, received>>
  /\ UNCHANGED classVars

\* The data layer creates the identity with its account row (base.js:197-209).
CreateResolve(r) ==
  /\ pc[r] = "create"
  /\ LET id == nextIdentityId
     IN /\ identities' = identities \cup {id}
        /\ links' = links \cup {accountRow(id, account[r][1].id, auth[r])}
        /\ created' = [created EXCEPT ![r] = <<[id |-> id]>>]
  /\ pc' = [pc EXCEPT ![r] = "created"]
  /\ UNCHANGED <<auth, account, found, user, err, session, responses, calls>>
  /\ UNCHANGED <<events, received>>
  /\ UNCHANGED classVars

\* The data layer rejects the create.
CreateReject(r) ==
  /\ pc[r] = "create"
  /\ throw(r, [httpStatusCode |-> <<>>, message |-> "create rejected"])
  /\ UNCHANGED <<auth, account, found, created, user, session, responses, calls>>
  /\ UNCHANGED <<events, identities, links, received>>
  /\ UNCHANGED classVars

\* A faulty OnboardEmit: the identity is returned without the event.
OnboardNoEmit(r) ==
  /\ pc[r] = "created"
  /\ pc' = [pc EXCEPT ![r] = "onboarded"]
  /\ UNCHANGED <<auth, account, found, created, user, err, session, responses, calls>>
  /\ UNCHANGED <<events, identities, links, received>>
  /\ UNCHANGED classVars

\* onboard after its await: the event, then the identity is returned
\* (base.js:210-215).
OnboardEmit(r) ==
  /\ pc[r] = "created"
  /\ emit(r, "authentication:onboard",
          [account |-> account[r][1], identity |-> created[r][1]])
  /\ pc' = [pc EXCEPT ![r] = "onboarded"]
  /\ UNCHANGED <<auth, account, found, created, user, err, session, responses, calls>>
  /\ UNCHANGED <<identities, links, received>>
  /\ UNCHANGED classVars

\* A faulty IdentifyOnboarded: the new identity's id is not given to the user.
IdentifyOnboardedForgetsId(r) ==
  /\ pc[r] = "onboarded"
  /\ emit(r, "authentication:authenticate", [user |-> user[r][1]])
  /\ pc' = [pc EXCEPT ![r] = "session"]
  /\ UNCHANGED <<auth, account, found, created, user, err, session, responses, calls>>
  /\ UNCHANGED <<identities, links, received>>
  /\ UNCHANGED classVars

\* identify after onboard has returned (base.js:169, 177-181).
IdentifyOnboarded(r) ==
  /\ pc[r] = "onboarded"
  /\ LET u == [user[r][1] EXCEPT !.id = <<created[r][1].id>>]
     IN /\ user' = [user EXCEPT ![r] = <<u>>]
        /\ emit(r, "authentication:authenticate", [user |-> u])
  /\ pc' = [pc EXCEPT ![r] = "session"]
  /\ UNCHANGED <<auth, account, found, created, err, session, responses, calls>>
  /\ UNCHANGED <<identities, links, received>>
  /\ UNCHANGED classVars

\* A faulty SessionSet: the session is set for a deferred user too.
SessionSetUnguarded(r) ==
  /\ pc[r] = "session"
  /\ called(r, "set")
  /\ session' = [session EXCEPT ![r] = <<[user |-> user[r][1]]>>]
  /\ pc' = [pc EXCEPT ![r] = "redirect"]
  /\ UNCHANGED <<auth, account, found, created, user, err, responses>>
  /\ UNCHANGED <<events, identities, links, received>>
  /\ UNCHANGED classVars

\* The third step with a user that is not deferred: the session is set
\* (base.js:233-239).
SessionSet(r) ==
  /\ pc[r] = "session"
  /\ ~user[r][1].deferred
  /\ called(r, "set")
  /\ session' = [session EXCEPT ![r] = <<[user |-> user[r][1]]>>]
  /\ pc' = [pc EXCEPT ![r] = "redirect"]
  /\ UNCHANGED <<auth, account, found, created, user, err, responses>>
  /\ UNCHANGED <<events, identities, links, received>>
  /\ UNCHANGED classVars

\* A faulty SessionThrow: the error is kept but the pipeline goes on.
SessionThrowContinues(r) ==
  /\ pc[r] = "session"
  /\ ~user[r][1].deferred
  /\ called(r, "set")
  /\ err' = [err EXCEPT ![r] = <<[httpStatusCode |-> <<>>, message |-> "set threw"]>>]
  /\ pc' = [pc EXCEPT ![r] = "redirect"]
  /\ UNCHANGED <<auth, account, found, created, user, session, responses>>
  /\ UNCHANGED <<events, identities, links, received>>
  /\ UNCHANGED classVars

\* A faulty SessionThrow: the step throws after the session is set.
SessionSetThenThrow(r) ==
  /\ pc[r] = "session"
  /\ ~user[r][1].deferred
  /\ called(r, "set")
  /\ session' = [session EXCEPT ![r] = <<[user |-> user[r][1]]>>]
  /\ throw(r, [httpStatusCode |-> <<>>, message |-> "set threw"])
  /\ UNCHANGED <<auth, account, found, created, user, responses>>
  /\ UNCHANGED <<events, identities, links, received>>
  /\ UNCHANGED classVars

\* The same step when req.character.set throws.
SessionThrow(r) ==
  /\ pc[r] = "session"
  /\ ~user[r][1].deferred
  /\ called(r, "set")
  /\ throw(r, [httpStatusCode |-> <<>>, message |-> "set threw"])
  /\ UNCHANGED <<auth, account, found, created, user, session, responses>>
  /\ UNCHANGED <<events, identities, links, received>>
  /\ UNCHANGED classVars

\* The third step with a deferred user: nothing is set.
SessionSkip(r) ==
  /\ pc[r] = "session"
  /\ user[r][1].deferred
  /\ pc' = [pc EXCEPT ![r] = "redirect"]
  /\ UNCHANGED <<auth, account, found, created, user, err, session, responses, calls>>
  /\ UNCHANGED <<events, identities, links, received>>
  /\ UNCHANGED classVars

\* res.redirect(status, url)
redirect(r, status, url) ==
  /\ responses' = [responses EXCEPT ![r] = Append(@, [status |-> status, location |-> url])]
  /\ called(r, "redirect")

\* The last step (base.js:241-247).
Redirect(r) ==
  /\ pc[r] = "redirect"
  /\ redirect(r, SEE_OTHER,
              IF user[r][1].deferred THEN config[auth[r]].deferredRedirect
              ELSE config[auth[r]].successRedirect)
  /\ pc' = [pc EXCEPT ![r] = "done"]
  /\ UNCHANGED <<auth, account, found, created, user, err, session>>
  /\ UNCHANGED <<events, identities, links, received>>
  /\ UNCHANGED classVars

\* A faulty statusOf: no default for an error without httpStatusCode.
statusOfNoDefault(e) ==
  IF e.httpStatusCode = <<>> THEN 0 ELSE e.httpStatusCode[1]

\* error.httpStatusCode || INTERNAL_SERVER_ERROR (base.js:252)
statusOf(e) ==
  IF e.httpStatusCode = <<>> THEN INTERNAL_SERVER_ERROR ELSE e.httpStatusCode[1]

\* A faulty Catch: the query is appended to this.config.failureRedirect itself.
CatchAppendsToConfig(r) ==
  /\ pc[r] = "catch"
  /\ LET query == stringifyReason(httpCodeMessage(statusOf(err[r][1])))
         url == config[auth[r]].failureRedirect \o "?" \o query
     IN /\ redirect(r, SEE_OTHER, url)
        /\ config' = [config EXCEPT ![auth[r]].failureRedirect = url]
  /\ pc' = [pc EXCEPT ![r] = "done"]
  /\ UNCHANGED <<auth, account, found, created, user, err, session>>
  /\ UNCHANGED <<events, identities, links, received>>
  /\ UNCHANGED <<registry, constructed, subclassed, models, router>>

\* receiver's catch (base.js:249-255).
Catch(r) ==
  /\ pc[r] = "catch"
  /\ LET query == stringifyReason(httpCodeMessage(statusOf(err[r][1])))
     IN redirect(r, SEE_OTHER, config[auth[r]].failureRedirect \o "?" \o query)
  /\ pc' = [pc EXCEPT ![r] = "done"]
  /\ UNCHANGED <<auth, account, found, created, user, err, session>>
  /\ UNCHANGED <<events, identities, links, received>>
  /\ UNCHANGED classVars

\* The request is over: its req and res are dropped, and another may arrive.
Finish(r) ==
  /\ pc[r] = "done"
  /\ pc' = [pc EXCEPT ![r] = "idle"]
  /\ auth' = [auth EXCEPT ![r] = ""]
  /\ account' = [account EXCEPT ![r] = <<>>]
  /\ found' = [found EXCEPT ![r] = <<>>]
  /\ created' = [created EXCEPT ![r] = <<>>]
  /\ user' = [user EXCEPT ![r] = <<>>]
  /\ err' = [err EXCEPT ![r] = <<>>]
  /\ session' = [session EXCEPT ![r] = <<>>]
  /\ responses' = [responses EXCEPT ![r] = <<>>]
  /\ events' = [events EXCEPT ![r] = <<>>]
  /\ calls' = [calls EXCEPT ![r] = <<>>]
  /\ UNCHANGED <<identities, links, received>>
  /\ UNCHANGED classVars

\* The errors authenticate of a subclass may throw.
AuthenticateErrors ==
  {ErrorPlain} \cup {ErrorWith(code) : code \in ThrownCodes}

Next ==
  \/ \E r \in Reqs, name \in Names : Receive(r, name)
  \/ \E r \in Reqs : AuthenticateBase(r)
  \/ \E r \in Reqs, acct \in Accounts : AuthenticateReturn(r, acct)
  \/ \E r \in Reqs, e \in AuthenticateErrors : AuthenticateThrow(r, e)
  \/ \E r \in Reqs : IdentifyDeferred(r)
  \/ \E r \in Reqs : IdentifyLookup(r)
  \/ \E r \in Reqs : FindOneResolve(r)
  \/ \E r \in Reqs : FindOneReject(r)
  \/ \E r \in Reqs : IdentifyFound(r)
  \/ \E r \in Reqs : IdentifyOnboard(r)
  \/ \E r \in Reqs : IdentifyNotFound(r)
  \/ \E r \in Reqs : CreateResolve(r)
  \/ \E r \in Reqs : CreateReject(r)
  \/ \E r \in Reqs : OnboardEmit(r)
  \/ \E r \in Reqs : IdentifyOnboarded(r)
  \/ \E r \in Reqs : SessionSet(r)
  \/ \E r \in Reqs : SessionThrow(r)
  \/ \E r \in Reqs : SessionSkip(r)
  \/ \E r \in Reqs : Redirect(r)
  \/ \E r \in Reqs : Catch(r)
  \/ \E r \in Reqs : Finish(r)

Spec == Init /\ [][Next]_vars

\* Construction alone, over every registry.
NextAttach == \E name \in Names : Construct(name)

SpecAttach == InitAttach /\ [][NextAttach]_vars

(***************************************************************************)
(* Properties.                                                             *)
(***************************************************************************)
Has(seq, x) == \E i \in DOMAIN seq : seq[i] = x

Count(seq, x) == Cardinality({i \in DOMAIN seq : seq[i] = x})

\* authenticate has returned request r an account that is not deferred.
NonDeferred(r) == account[r] # <<>> /\ ~account[r][1].deferred

\* authenticate has returned request r a deferred account.
Deferred(r) == account[r] # <<>> /\ account[r][1].deferred

\* findIdentity has answered request r, and answered null.
NoneFound(r) ==
  /\ NonDeferred(r)
  /\ pc[r] \notin {"identify", "findOne"}
  /\ found[r] = <<>>
  /\ (err[r] # <<>> => err[r][1].message # "findOne rejected")

\* identify has returned to the pipeline of request r.
Identified(r) ==
  \/ pc[r] \in {"session", "redirect"}
  \/ pc[r] = "done" /\ err[r] = <<>>
  \/ pc[r] \in {"catch", "done"} /\ err[r] # <<>> /\ err[r][1].message = "set threw"

\* The user identify builds for request r, with the given id and deferred.
userOf(r, id, deferred) ==
  [authenticator |-> [account |-> account[r][1], name |-> auth[r]],
   id |-> id, deferred |-> deferred]

\* Only the data layer's create changes the store, and adds to it.
storeUnchanged == identities' = identities /\ links' = links

\* C1: a request to a POST authenticator with onboardKnownAccounts set, whose
\* account is not deferred and for which findIdentity found nothing, ends
\* (when none of its steps fails) with one 303 redirect to successRedirect
\* and a session holding the user whose id is the id of the identity created
\* for the account during the request.
C1_OnboardedRequestSucceeds ==
  \A r \in Reqs :
    ( /\ pc[r] = "done"
      /\ \E route \in router[auth[r]] : route.method = "POST"
      /\ config[auth[r]].onboardKnownAccounts
      /\ NoneFound(r)
      /\ err[r] = <<>> )
    => /\ responses[r] = <<[status |-> 303, location |-> config[auth[r]].successRedirect]>>
       /\ created[r] # <<>>
       /\ created[r][1].id \in identities
       /\ accountRow(created[r][1].id, account[r][1].id, auth[r]) \in links
       /\ session[r] = <<[user |-> userOf(r, <<created[r][1].id>>, FALSE)]>>

C1_Witness ==
  \E r \in Reqs :
    /\ pc[r] = "done" /\ err[r] = <<>> /\ NoneFound(r)
    /\ created[r] # <<>> /\ session[r] # <<>>

\* The reason the failure redirect carries for an error, percent-encoded as
\* it stands in the query string; a code without a standard text gives none.
expectedReason(e) ==
  CASE e.httpStatusCode = <<>> -> "Internal%20Server%20Error"
    [] e.httpStatusCode = <<500>> -> "Internal%20Server%20Error"
    [] e.httpStatusCode = <<404>> -> "Not%20Found"
    [] e.httpStatusCode = <<401>> -> "Unauthorized"
    [] OTHER -> ""

\* C2: a request one of whose steps failed (authenticate, identify, the
\* session set) runs no further step but the catch, and ends with exactly one
\* response, a 303 redirect to failureRedirect with reason=<the standard text
\* of the error's httpStatusCode>, the Internal Server Error text when the
\* error has none; the base authenticate gives the Internal Server Error
\* reason and an identity not found the Not Found reason.
C2_FailureRedirect ==
  \A r \in Reqs :
    err[r] # <<>> =>
      /\ pc[r] \in {"catch", "done"}
      /\ (pc[r] = "catch" => responses[r] = <<>>)
      /\ pc[r] = "done" =>
           /\ responses[r] =
                <<[status |-> 303,
                   location |-> config[auth[r]].failureRedirect \o "?reason="
                                \o expectedReason(err[r][1])]>>
           /\ (auth[r] \notin Subclassed =>
                 responses[r][1].location =
                   config[auth[r]].failureRedirect \o "?reason=Internal%20Server%20Error")
           /\ (err[r][1].message = "Could not find identity for account" =>
                 responses[r][1].location =
                   config[auth[r]].failureRedirect \o "?reason=Not%20Found")

C2_Witness ==
  \E r, q \in Reqs :
    /\ pc[r] = "done" /\ err[r] # <<>> /\ err[r][1].message = "set threw"
    /\ pc[q] = "done" /\ err[q] # <<>>
    /\ err[q][1].message = "Could not find identity for account"

\* C3: a request whose account is deferred never has a session set and never
\* fails, and ends with one 303 redirect to deferredRedirect, which is not
\* successRedirect.
C3_DeferredRedirect ==
  \A r \in Reqs :
    Deferred(r) =>
      /\ session[r] = <<>>
      /\ ~Has(calls[r], "set")
      /\ err[r] = <<>>
      /\ pc[r] = "done" =>
           /\ responses[r] = <<[status |-> 303, location |-> config[auth[r]].deferredRedirect]>>
           /\ responses[r][1].location # config[auth[r]].successRedirect

C3_Witness == \E r \in Reqs : Deferred(r) /\ pc[r] = "done" /\ Len(responses[r]) = 1

\* C4: when the account of a request is not deferred and an identity is
\* linked to (account.id, authenticator name), findIdentity answers with a
\* linked identity, identify gives the user that identity's id, never calls
\* onboard, and none of its steps changes the identities or the account rows.
C4_LinkedIdentityReused ==
  /\ [](\A r \in Reqs :
          (NonDeferred(r) /\ found[r] # <<>>) =>
            /\ found[r][1].id \in findOneMatches(account[r][1].id, auth[r])
            /\ ~Has(calls[r], "onboard")
            /\ created[r] = <<>>
            /\ (pc[r] # "lookedUp" => user[r] = <<userOf(r, <<found[r][1].id>>, FALSE)>>))
  /\ [][\A r \in Reqs :
          /\ ( /\ pc[r] = "findOne" /\ pc'[r] = "lookedUp"
               /\ findOneMatches(account[r][1].id, auth[r]) # {} )
             => found'[r] # <<>>
          /\ (pc[r] \in {"identify", "findOne", "lookedUp"} /\ found'[r] # <<>>
              /\ pc'[r] # pc[r])
             => storeUnchanged]_vars

C4_Witness ==
  \E r \in Reqs :
    /\ pc[r] = "session" /\ NonDeferred(r) /\ found[r] # <<>>
    /\ user[r][1].id = <<found[r][1].id>>

\* C5: when the account of a request is not deferred, findIdentity found
\* nothing and onboardKnownAccounts is set, identify calls onboard once, the
\* create adds exactly one identity not there before and exactly one account
\* row, for (account.id, authenticator name), no other step changes the
\* store, and the user identify returns has the new identity's id.
C5_OnboardCreatesOne ==
  /\ [](\A r \in Reqs :
          (NoneFound(r) /\ config[auth[r]].onboardKnownAccounts /\ Identified(r)) =>
            /\ Count(calls[r], "onboard") = 1
            /\ created[r] # <<>>
            /\ created[r][1].id \in identities
            /\ {l \in links : l.identityId = created[r][1].id}
                 = {accountRow(created[r][1].id, account[r][1].id, auth[r])}
            /\ user[r] = <<userOf(r, <<created[r][1].id>>, FALSE)>>)
  /\ [][\A r \in Reqs :
          IF pc[r] = "create" /\ pc'[r] = "created"
            THEN \E id \in identities' \ identities :
                   /\ identities' = identities \cup {id}
                   /\ accountRow(id, account[r][1].id, auth[r]) \notin links
                   /\ links' = links \cup {accountRow(id, account[r][1].id, auth[r])}
                   /\ created'[r] = <<[id |-> id]>>
            ELSE pc'[r] # pc[r] => storeUnchanged]_vars

C5_Witness ==
  \E r \in Reqs :
    /\ pc[r] = "session" /\ NoneFound(r) /\ created[r] # <<>>
    /\ user[r][1].id = <<created[r][1].id>>

\* C6: when the account of a request is not deferred, findIdentity found
\* nothing and onboardKnownAccounts is not set, identify fails with an error
\* whose httpStatusCode is NOT_FOUND; the request has called no onboard,
\* created nothing and emitted no event, and the failing step leaves the
\* store as it is.
C6_NotFoundWithoutOnboarding ==
  /\ [](\A r \in Reqs :
          (NoneFound(r) /\ ~config[auth[r]].onboardKnownAccounts) =>
            /\ pc[r] \in {"lookedUp", "catch", "done"}
            /\ (pc[r] # "lookedUp" =>
                  err[r] # <<>> /\ err[r][1].httpStatusCode = <<404>>)
            /\ ~Has(calls[r], "onboard")
            /\ created[r] = <<>>
            /\ events[r] = <<>>)
  /\ [][\A r \in Reqs :
          ( /\ pc[r] = "lookedUp" /\ found[r] = <<>>
            /\ ~config[auth[r]].onboardKnownAccounts /\ pc'[r] # pc[r] )
          => /\ pc'[r] = "catch"
             /\ storeUnchanged
             /\ events' = events]_vars

C6_Witness ==
  \E r \in Reqs :
    /\ pc[r] = "catch" /\ NoneFound(r) /\ ~config[auth[r]].onboardKnownAccounts
    /\ err[r][1].httpStatusCode = <<404>>

\* C7: for a deferred account identify calls neither findIdentity nor
\* onboard, gets nothing from the store and creates nothing, and returns the
\* user with deferred = true and no id, whatever onboardKnownAccounts is and
\* whether or not an identity is linked to the account.
C7_DeferredSkipsStore ==
  \A r \in Reqs :
    (Deferred(r) /\ pc[r] # "identify") =>
      /\ user[r] = <<userOf(r, <<>>, TRUE)>>
      /\ ~Has(calls[r], "findIdentity")
      /\ ~Has(calls[r], "onboard")
      /\ found[r] = <<>>
      /\ created[r] = <<>>
      /\ Identified(r)

C7_Witness ==
  \E r \in Reqs :
    /\ Deferred(r) /\ pc[r] = "session"
    /\ findOneMatches(account[r][1].id, auth[r]) # {}
    /\ user[r][1].deferred

\* C8: once onboard has returned an identity for an account of an
\* authenticator, every findIdentity answered later for the same account.id
\* and authenticator name gives that identity's id.
C8_OnboardedThenFound ==
  [][\A r, q \in Reqs :
       ( /\ pc[r] = "findOne" /\ pc'[r] = "lookedUp"
         /\ created[q] # <<>> /\ pc[q] # "created"
         /\ account[q][1].id = account[r][1].id
         /\ auth[q] = auth[r] )
       => found'[r] = <<[id |-> created[q][1].id]>>]_vars

\* The prefix of the models of each authenticator, written out.
expectedPrefix(name) ==
  CASE name = "a" -> "Authentication$A$"
    [] name = "ab" -> "Authentication$Ab$"
    [] name = "x" -> "Authentication$X$"

\* C9: the models of a constructed authenticator are exactly the registered
\* models whose name starts with Authentication$<CapitalizedName>$, each
\* under its name without that prefix.
C9_ModelsBound ==
  \A name \in constructed :
    LET prefix == expectedPrefix(name)
        own == {i \in DOMAIN registry :
                  /\ Len(registry[i]) >= Len(prefix)
                  /\ SubSeq(registry[i], 1, Len(prefix)) = prefix}
    IN /\ DOMAIN models[name]
            = {SubSeq(registry[i], Len(prefix) + 1, Len(registry[i])) : i \in own}
       /\ \A key \in DOMAIN models[name] : models[name][key] = prefix \o key

C9_Witness ==
  /\ constructed = Names
  /\ Len(registry) = Len(CoreModels) + Len(ExtraModels)
  /\ DOMAIN models["a"] = {"x", ""}
  /\ DOMAIN models["ab"] = {"x", "A$x"}
  /\ DOMAIN models["x"] = {}

\* C10: no two identities are linked to the same pair
\* (authenticatorAccountId, authenticatorName).
C10_OneIdentityPerPair ==
  \A l, m \in links :
    ( /\ l.authenticatorAccountId = m.authenticatorAccountId
      /\ l.authenticatorName = m.authenticatorName )
    => l.identityId = m.identityId

\* The place of each call in the pipeline.
rank(what) ==
  CASE what = "receiver" -> 0
    [] what = "authenticate" -> 1
    [] what = "identify" -> 2
    [] what = "findIdentity" -> 3
    [] what = "onboard" -> 4
    [] what = "set" -> 5
    [] what = "redirect" -> 6

\* The call during which the error was thrown.
failedIn(e) ==
  CASE e.message = "set threw" -> "set"
    [] e.message = "create rejected" -> "onboard"
    [] e.message = "findOne rejected" -> "findIdentity"
    [] e.message = "Could not find identity for account" -> "findIdentity"
    [] OTHER -> "authenticate"

\* C11: in every request the calls are made in the pipeline's order, each at
\* most once: identify only with the account authenticate returned, the
\* session step only with the user identify returned (its authenticate event
\* emitted), the redirect only after the session step; once a step has
\* failed the request is in the catch or over, the failing call is the last
\* one made but for the failure redirect, and no session is set.
C11_PipelineOrder ==
  \A r \in Reqs :
    /\ \A i, j \in DOMAIN calls[r] : i < j => rank(calls[r][i]) < rank(calls[r][j])
    /\ (pc[r] = "idle") = (calls[r] = <<>>)
    /\ Has(calls[r], "identify") => account[r] # <<>> /\ user[r] # <<>>
    /\ (pc[r] \in {"session", "redirect"} \/ Has(calls[r], "set")) =>
         /\ Has(calls[r], "identify")
         /\ user[r] # <<>>
         /\ events[r] # <<>>
         /\ events[r][Len(events[r])] =
              [type |-> "authentication:authenticate", payload |-> [user |-> user[r][1]]]
    /\ (pc[r] = "redirect" /\ ~user[r][1].deferred) => session[r] # <<>>
    /\ Has(calls[r], "redirect") = (pc[r] = "done")
    /\ err[r] # <<>> =>
         /\ pc[r] \in {"catch", "done"}
         /\ session[r] = <<>>
         /\ LET made == IF pc[r] = "done" THEN SubSeq(calls[r], 1, Len(calls[r]) - 1)
                        ELSE calls[r]
            IN made[Len(made)] = failedIn(err[r][1])

C11_Witness ==
  \E r \in Reqs :
    calls[r] = <<"receiver", "authenticate", "identify", "findIdentity", "onboard",
                 "set", "redirect">>

\* The places in the events of request r of the events of a type.
eventsOf(r, type) == {i \in DOMAIN events[r] : events[r][i].type = type}

\* C12: a request has emitted one authentication:authenticate event, with
\* the user identify returned, once identify has returned (deferred or not),
\* and none before or when identify failed; it has emitted one
\* authentication:onboard event, with the account and the created identity,
\* once onboard has returned, and none otherwise; the identity of an onboard
\* event is in the store with its account row, and the onboard event comes
\* before the authenticate event.
C12_Events ==
  \A r \in Reqs :
    LET authenticated == eventsOf(r, "authentication:authenticate")
        onboarded == eventsOf(r, "authentication:onboard")
    IN /\ DOMAIN events[r] = authenticated \cup onboarded
       /\ IF Identified(r)
            THEN /\ Cardinality(authenticated) = 1
                 /\ events[r][Len(events[r])] =
                      [type |-> "authentication:authenticate",
                       payload |-> [user |-> user[r][1]]]
            ELSE authenticated = {}
       /\ IF created[r] # <<>> /\ pc[r] # "created"
            THEN /\ onboarded = {1}
                 /\ events[r][1] =
                      [type |-> "authentication:onboard",
                       payload |-> [account |-> account[r][1], identity |-> created[r][1]]]
                 /\ created[r][1].id \in identities
                 /\ accountRow(created[r][1].id, account[r][1].id, auth[r]) \in links
            ELSE onboarded = {}
       /\ \A i \in onboarded, j \in authenticated : i < j

C12_Witness ==
  \E r, q \in Reqs :
    /\ Len(events[r]) = 2 /\ created[r] # <<>> /\ Identified(r)
    /\ Deferred(q) /\ Len(events[q]) = 1

\* C13: when a request fails after its onboard has created an identity, the
\* identity and its account row stay in the store, the request ends in the
\* failure redirect, and the findIdentity of a later request for the same
\* account and authenticator is answered with that identity.
C13_NoRollbackThenFound ==
  /\ [](\A r \in Reqs :
          (created[r] # <<>> /\ err[r] # <<>>) =>
            /\ created[r][1].id \in identities
            /\ accountRow(created[r][1].id, account[r][1].id, auth[r]) \in links
            /\ pc[r] \in {"catch", "done"}
            /\ (pc[r] = "done" =>
                  responses[r] =
                    <<[status |-> 303,
                       location |-> config[auth[r]].failureRedirect
                                    \o "?reason=Internal%20Server%20Error"]>>))
  /\ [][/\ identities \subseteq identities'
        /\ links \subseteq links'
        /\ \A r, q \in Reqs :
             ( /\ pc[q] = "findOne" /\ pc'[q] = "lookedUp"
               /\ created[r] # <<>> /\ err[r] # <<>>
               /\ account[r][1].id = account[q][1].id
               /\ auth[r] = auth[q] )
             => found'[q] = <<[id |-> created[r][1].id]>>]_vars

\* The same without the duplicates of C10: the store only grows, and the later
\* findIdentity is answered with an identity, the one created when it is the
\* only one linked to the pair.
C13_NoRollback ==
  [][/\ identities \subseteq identities'
     /\ links \subseteq links'
     /\ \A r, q \in Reqs :
          ( /\ pc[q] = "findOne" /\ pc'[q] = "lookedUp"
            /\ created[r] # <<>> /\ err[r] # <<>>
            /\ account[r][1].id = account[q][1].id
            /\ auth[r] = auth[q] )
          => /\ found'[q] # <<>>
             /\ Cardinality(findOneMatches(account[q][1].id, auth[q])) = 1
                => found'[q] = created[r]]_vars

\* C14: no step of any request, finished well or not, changes the config of
\* a constructed authenticator, which stays the copy of what the host gave.
C14_ConfigUnchanged ==
  /\ [](\A name \in constructed :
          \E flag \in BOOLEAN : config[name] = hostConfig(name, flag))
  /\ [][\A name \in constructed : config'[name] = config[name]]_vars

C14_Witness ==
  \E r, q \in Reqs :
    /\ pc[r] = "done" /\ err[r] # <<>>
    /\ pc[q] = "done" /\ err[q] = <<>> /\ session[q] # <<>>

\* C15: a session is set only in a request whose authenticate returned an
\* account that is not deferred and whose identify returned (its authenticate
\* event emitted, no error); the session's user is not deferred and its id
\* is the id of an identity with an account row for the account's id under
\* the authenticator's name.
C15_SessionOnlyForIdentified ==
  \A r \in Reqs :
    session[r] # <<>> =>
      /\ NonDeferred(r)
      /\ err[r] = <<>>
      /\ Has(calls[r], "authenticate") /\ Has(calls[r], "identify")
      /\ eventsOf(r, "authentication:authenticate") # {}
      /\ ~session[r][1].user.deferred
      /\ session[r][1].user.authenticator = [account |-> account[r][1], name |-> auth[r]]
      /\ \E i \in identities :
           /\ session[r][1].user.id = <<i>>
           /\ accountRow(i, account[r][1].id, auth[r]) \in links

C15_Witness ==
  \E r \in Reqs :
    /\ session[r] # <<>> /\ pc[r] = "redirect" /\ found[r] # <<>>
    /\ account[r][1].id # found[r][1].id

C17_LookupScopedByName ==
  /\ \A l, m \in links : l.identityId = m.identityId => l = m
  /\ \A r \in Reqs :
       /\ found[r] # <<>> =>
            accountRow(found[r][1].id, account[r][1].id, auth[r]) \in links
       /\ created[r] # <<>> =>
            accountRow(created[r][1].id, account[r][1].id, auth[r]) \in links
       /\ (NoneFound(r) /\ pc[r] # "lookedUp") =>
            IF config[auth[r]].onboardKnownAccounts
              THEN Has(calls[r], "onboard")
              ELSE err[r] # <<>> /\ err[r][1].httpStatusCode = <<404>>

C17_Witness ==
  \E r \in Reqs :
    /\ auth[r] = "ab" /\ NoneFound(r) /\ created[r] # <<>>
    /\ \E l \in links :
         /\ l.authenticatorName = "a"
         /\ l.authenticatorAccountId = account[r][1].id
         /\ l.identityId # created[r][1].id

=============================================================================
